---- MODULE Spec2Model ----
(***************************************************************************)
(* PostifyAI: the LinkedIn post generation pipeline.                       *)
(*                                                                         *)
(* One request is followed from the API boundary (generate_posts) through  *)
(* the three workflow nodes research -> strategy -> generation to the      *)
(* response.  Two service variants exist in the repository:                *)
(*   "new_main" : src/new_main.py (self-contained)                         *)
(*   "main"     : src/main.py + src/agent.py + src/tools.py                *)
(*                                                                         *)
(* Spec follows one request, SpecHashtag the hashtag lookup on its own,     *)
(* SpecPair two requests whose steps interleave.                           *)
(*                                                                         *)
(* Representation choices:                                                 *)
(*  - topic, tone and the approach names are sequences of one-character    *)
(*    strings, so that lower(), title() and the substring test `in` are    *)
(*    computed as Python computes them;                                    *)
(*  - a model output is represented by [ws, body, words]: the number of    *)
(*    leading/trailing whitespace characters, the number of characters     *)
(*    that remain after strip(), the number of words split() yields;       *)
(*  - tokens_used is kept in tenths of a token (1.3 per word = 13 tenths). *)
(***************************************************************************)
EXTENDS Integers, Sequences, FiniteSets, TLC

VARIABLES
    variant,          \* which service variant serves the request
    api_key,          \* the model provider's credential in the environment
    request,          \* the PostRequest
    pc,               \* where the request is
    state,            \* the AgentState threaded through the workflow
    i,                \* generation_phase: the loop index
    processed_posts,  \* generation_phase: the posts built so far
    post_results,     \* history: what the model answered in each iteration
    calls,            \* history: the collaborator calls issued, in order
    response,         \* what the caller receives
    tags,             \* the result of a direct hashtag lookup
    peer              \* a second request in flight, suspended at an await

vars == <<variant, api_key, request, pc, state, i, processed_posts,
          post_results, calls, response, tags, peer>>

----------------------------------------------------------------------------
(* Bounds of the model *)

\* largest post_count a request asks for (the smallest is MinPostCount)
MaxPostCount == 6
MinPostCount == 0 - 1
\* largest number of words of a topic built for the hashtag lookup
MaxTopicWords == 2

(* Program constants *)

\* min(request.post_count, 5)
PostCountCap == 5
\* results[:3]
CitationCap == 3
\* len(...split()) * 1.3, in tenths of a token
TokensPerWord == 13
\* state["tokens_used"] += 200
FallbackTokens == 200
\* len(post_content) > 200
HighLength == 200
\* len(post_content) < 100
LowLength == 100
\* len(fallback_content) without the topic
FallbackTemplateLength == 347
\* HTTPException(status_code=500, ...)
ServerError == 500

----------------------------------------------------------------------------
(* Strings as sequences of characters *)

Min(a, b) == IF a < b THEN a ELSE b
Max(a, b) == IF a > b THEN a ELSE b

Upper == <<"A","B","C","D","E","F","G","H","I","J","K","L","M",
           "N","O","P","Q","R","S","T","U","V","W","X","Y","Z">>
Lower == <<"a","b","c","d","e","f","g","h","i","j","k","l","m",
           "n","o","p","q","r","s","t","u","v","w","x","y","z">>

\* the characters that occur in the strings of the model
Chars == {Upper[k] : k \in 1..26} \cup {Lower[k] : k \in 1..26} \cup {" ", "/", "-"}

IsAlpha == [c \in Chars |-> \E k \in 1..26 : Upper[k] = c \/ Lower[k] = c]

LowerChar ==
    [c \in Chars |->
        IF \E k \in 1..26 : Upper[k] = c
        THEN Lower[CHOOSE k \in 1..26 : Upper[k] = c] ELSE c]

UpperChar ==
    [c \in Chars |->
        IF \E k \in 1..26 : Lower[k] = c
        THEN Upper[CHOOSE k \in 1..26 : Lower[k] = c] ELSE c]

\* str.lower()
StrLower(s) == [k \in 1..Len(s) |-> LowerChar[s[k]]]

\* str.title(): a letter that follows a non-letter is upper-cased, any other
\* letter is lower-cased
StrTitle(s) ==
    [k \in 1..Len(s) |->
        IF k = 1 \/ ~IsAlpha[s[k-1]] THEN UpperChar[s[k]] ELSE LowerChar[s[k]]]

\* needle in hay
StrContains(hay, needle) ==
    \E k \in 0..(Len(hay) - Len(needle)) :
        \A j \in 1..Len(needle) : hay[k + j] = needle[j]

----------------------------------------------------------------------------
(* Hashtag lookup: analyze_hashtag_performance *)

\* the keys of hashtag_map, in insertion order
HashtagKeys ==
    << <<"s","t","a","r","t","u","p">>,
       <<"a","i">>,
       <<"m","a","r","k","e","t","i","n","g">>,
       <<"l","e","a","d","e","r","s","h","i","p">>,
       <<"t","e","c","h","n","o","l","o","g","y">>,
       <<"c","a","r","e","e","r">> >>

\* the values of hashtag_map, in the same order
HashtagTags ==
    << <<"#StartupLife", "#Entrepreneurship", "#Innovation", "#TechStartup", "#ScaleUp">>,
       <<"#ArtificialIntelligence", "#MachineLearning", "#AI", "#TechInnovation", "#FutureOfWork">>,
       <<"#Marketing", "#DigitalMarketing", "#ContentMarketing", "#MarketingStrategy", "#GrowthHacking">>,
       <<"#Leadership", "#Management", "#ExecutiveLeadership", "#TeamBuilding", "#WorkplaceCulture">>,
       <<"#Technology", "#TechTrends", "#Innovation", "#DigitalTransformation", "#TechLeadership">>,
       <<"#CareerGrowth", "#ProfessionalDevelopment", "#CareerAdvice", "#JobSearch", "#NetworkingTips">> >>

DefaultTags == <<"#LinkedIn", "#Professional", "#Insights", "#Growth", "#Success">>

\* the loop `for key, tags in hashtag_map.items()` from entry k on
RECURSIVE HashtagScan(_, _)
HashtagScan(topic, k) ==
    IF k > Len(HashtagKeys) THEN DefaultTags
    ELSE IF StrContains(StrLower(topic), StrLower(HashtagKeys[k])) THEN HashtagTags[k]
    ELSE HashtagScan(topic, k + 1)

\* a scan that keeps the last match instead of returning at the first
RECURSIVE HashtagScanLast(_, _)
HashtagScanLast(topic, k) ==
    IF k < 1 THEN DefaultTags
    ELSE IF StrContains(StrLower(topic), StrLower(HashtagKeys[k])) THEN HashtagTags[k]
    ELSE HashtagScanLast(topic, k - 1)

analyze_hashtag_performance_last(topic) == HashtagScanLast(topic, Len(HashtagKeys))

analyze_hashtag_performance(topic) == HashtagScan(topic, 1)

----------------------------------------------------------------------------
(* The generation phase's per-post rules *)

\* the "approach" entries of post_prompts, in order
post_prompts ==
    << <<"S","t","o","r","y","/","P","e","r","s","o","n","a","l"," ","E","x","p","e","r","i","e","n","c","e">>,
       <<"D","a","t","a","/","I","n","s","i","g","h","t","s">>,
       <<"Q","u","e","s","t","i","o","n","/","E","n","g","a","g","e","m","e","n","t">>,
       <<"H","o","w","-","t","o","/","E","d","u","c","a","t","i","o","n","a","l">>,
       <<"I","n","d","u","s","t","r","y"," ","T","r","e","n","d","s">> >>

\* a loop that starts the cycle of approaches at the second one
PromptApproachShifted(k) == post_prompts[((k + 1) % Len(post_prompts)) + 1]

\* prompt_data = post_prompts[i % len(post_prompts)], i counted from 0
PromptApproach(k) == post_prompts[(k % Len(post_prompts)) + 1]

KwQuestion == <<"q","u","e","s","t","i","o","n">>
KwStory == <<"s","t","o","r","y">>
KwData == <<"d","a","t","a">>

\* the call-to-action texts (the trailing emoji of the first one is left out)
CtaQuestion == "What's your experience with this? Share in the comments!"
CtaStory == "Can you relate? Share your own experience below!"
CtaData == "What do these insights mean for your industry? Let me know your thoughts!"
CtaGeneric == "What are your thoughts on this? I'd love to hear your perspective!"
CtaFallback == "What's your take on this? Share your thoughts below!"

\* the chain with the keywords matched against the approach as written
SelectCtaCaseSensitive(include_cta, approach) ==
    IF ~include_cta THEN ""
    ELSE IF StrContains(approach, KwQuestion) THEN CtaQuestion
    ELSE IF StrContains(approach, KwStory) THEN CtaStory
    ELSE IF StrContains(approach, KwData) THEN CtaData
    ELSE CtaGeneric

\* the if/elif chain that picks the call to action of a generated post
SelectCta(include_cta, approach) ==
    IF ~include_cta THEN ""
    ELSE IF StrContains(StrLower(approach), KwQuestion) THEN CtaQuestion
    ELSE IF StrContains(StrLower(approach), KwStory) THEN CtaStory
    ELSE IF StrContains(StrLower(approach), KwData) THEN CtaData
    ELSE CtaGeneric

\* the estimate with the short-content test made first
EngagementScoreShortFirst(approach, content_len) ==
    IF content_len < LowLength THEN "low"
    ELSE IF StrContains(StrLower(approach), KwQuestion) \/ content_len > HighLength THEN "high"
    ELSE "medium"

\* the engagement estimate of a generated post
EngagementScore(approach, content_len) ==
    IF StrContains(StrLower(approach), KwQuestion) \/ content_len > HighLength THEN "high"
    ELSE IF content_len < LowLength THEN "low"
    ELSE "medium"

\* posts that carry the hashtags whether they were asked for or not
PostHashtagsAlways(st) == analyze_hashtag_performance(st.topic)

\* hashtags = analyze_hashtag_performance(topic) if include_hashtags else []
PostHashtags(st) ==
    IF st.include_hashtags THEN analyze_hashtag_performance(st.topic) ELSE <<>>

\* processed_post, built from the model's output `out`
ProcessedPost(st, approach, out) ==
    [ content |-> [text |-> "model", len |-> out.body],
      hashtags |-> PostHashtags(st),
      cta |-> SelectCta(st.include_cta, approach),
      estimated_engagement |-> EngagementScore(approach, out.body),
      tone_used |-> StrTitle(st.tone) ]

\* a fallback post that carries no hashtags
FallbackPostNoHashtags(st) ==
    [ content |-> [text |-> "fallback", len |-> FallbackTemplateLength + Len(st.topic)],
      hashtags |-> <<>>,
      cta |-> IF st.include_cta THEN CtaFallback ELSE "",
      estimated_engagement |-> "medium",
      tone_used |-> StrTitle(st.tone) ]

\* a fallback post that carries its call to action whatever the request asks
FallbackPostAlwaysCta(st) ==
    [ content |-> [text |-> "fallback", len |-> FallbackTemplateLength + Len(st.topic)],
      hashtags |-> PostHashtags(st),
      cta |-> CtaFallback,
      estimated_engagement |-> "medium",
      tone_used |-> StrTitle(st.tone) ]

\* fallback_post, built in the except branch
FallbackPost(st) ==
    [ content |-> [text |-> "fallback", len |-> FallbackTemplateLength + Len(st.topic)],
      hashtags |-> PostHashtags(st),
      cta |-> IF st.include_cta THEN CtaFallback ELSE "",
      estimated_engagement |-> "medium",
      tone_used |-> StrTitle(st.tone) ]

----------------------------------------------------------------------------
(* Inputs *)

Variants == {"new_main", "main"}
ApiKeys == {"unset", "placeholder", "configured"}

TopicAI == <<"A","I"," ","i","n"," ","h","e","a","l","t","h","c","a","r","e">>
TopicRemote == <<"R","e","m","o","t","e"," ","w","o","r","k">>
Topics == {TopicAI, TopicRemote}

ToneProfessional == <<"p","r","o","f","e","s","s","i","o","n","a","l">>
Tones == {ToneProfessional}

\* length_guide
length_guide == {"short", "medium", "long"}
Lengths == {"medium", "extra-long"}

Requests ==
    [ topic : Topics, tone : Tones, audience : {"general"}, length : Lengths,
      include_hashtags : BOOLEAN, include_cta : BOOLEAN,
      post_count : MinPostCount..MaxPostCount, language : {"english"} ]

\* how many results the search may return: none, or more than are cited
SearchResultCounts == {0, CitationCap + 1}

\* how many words the strategy text of the model may have
StrategyWordCounts == {2}

\* what the model may answer to a post prompt: whitespace around the text, the
\* length of the stripped text, the number of words
LLMOutputs ==
    { [ws |-> 2, body |-> 0, words |-> 0],
      [ws |-> 1, body |-> LowLength, words |-> 2],
      [ws |-> 2, body |-> HighLength, words |-> 3],
      [ws |-> 0, body |-> HighLength + 1, words |-> 1] }

\* no answer: the model call raised
NoOutput == [ws |-> 0, body |-> 0, words |-> 0]

NoResearch == [form |-> "none", kind |-> "none", results |-> 0]
NoResponse ==
    [ kind |-> "none", status_code |-> 0, detail |-> <<>>, posts |-> <<>>,
      tokens_used |-> 0, search_results_used |-> FALSE, citations |-> <<>> ]

\* the citation made from result j of the search
Citation(j) == [title |-> j, link |-> j, snippet |-> j]

\* AgentState(...) as generate_posts builds it
InitialState(req) ==
    [ topic |-> req.topic, tone |-> req.tone, audience |-> req.audience,
      length |-> req.length, include_hashtags |-> req.include_hashtags,
      include_cta |-> req.include_cta,
      post_count |-> Min(req.post_count, PostCountCap),
      language |-> req.language,
      research_data |-> NoResearch, post_strategy |-> "None",
      generated_posts |-> <<>>, tokens_used |-> 0, citations |-> <<>> ]

\* no second request
NoPeer == [rid |-> 0]

\* the state before generate_posts has built one
Unset ==
    [ topic |-> <<>>, tone |-> <<>>, audience |-> "", length |-> "",
      include_hashtags |-> FALSE, include_cta |-> FALSE, post_count |-> 0,
      language |-> "", research_data |-> NoResearch, post_strategy |-> "None",
      generated_posts |-> <<>>, tokens_used |-> 0, citations |-> <<>> ]

----------------------------------------------------------------------------
(* The API boundary and the workflow *)

Init ==
    /\ variant \in Variants
    /\ api_key \in ApiKeys
    /\ request \in Requests
    /\ pc = "received"
    /\ state = Unset
    /\ i = 0
    /\ processed_posts = <<>>
    /\ post_results = <<>>
    /\ calls = <<>>
    /\ response = NoResponse
    /\ tags = <<>>
    /\ peer = NoPeer

\* except Exception as e: raise HTTPException(500, f"Generation failed: {str(e)}")
Fail(cause) ==
    /\ response' = [NoResponse EXCEPT !.kind = "error", !.status_code = ServerError,
                                      !.detail = <<"Generation failed: ", cause>>]
    /\ pc' = "done"

\* an API boundary that looks the length up before the workflow is started
GeneratePostsValidated ==
    /\ pc = "received"
    /\ IF \/ variant = "new_main" /\ api_key \in {"unset", "placeholder"}
          \/ request.length \notin length_guide
       THEN /\ Fail(IF request.length \notin length_guide
                    THEN "KeyError: length"
                    ELSE "OpenAI API key not configured")
            /\ UNCHANGED state
       ELSE /\ state' = InitialState(request)
            /\ pc' = "research"
            /\ UNCHANGED response
    /\ UNCHANGED <<variant, api_key, request, i, processed_posts, post_results, calls, tags, peer>>

\* generate_posts up to agent.ainvoke: the credential check (new_main only) and
\* the initial state
GeneratePosts ==
    /\ pc = "received"
    /\ IF variant = "new_main" /\ api_key \in {"unset", "placeholder"}
       THEN /\ Fail("OpenAI API key not configured")
            /\ UNCHANGED state
       ELSE /\ state' = InitialState(request)
            /\ pc' = "research"
            /\ UNCHANGED response
    /\ UNCHANGED <<variant, api_key, request, i, processed_posts, post_results, calls, tags, peer>>

\* a workflow whose generation node has an edge back to research
NextNodeRetry(node) ==
    CASE node = "research" -> "strategy"
      [] node = "strategy" -> "generation"
      [] node = "generation" -> "research"

\* create_agent_workflow: the edges research -> strategy -> generation -> END;
\* after END generate_posts builds the response
NextNode(node) ==
    CASE node = "research" -> "strategy"
      [] node = "strategy" -> "generation"
      [] node = "generation" -> "respond"

\* what search_linkedin_trends returns: outcome is "raise" (search.run raised),
\* "malformed" (json.loads or the result loop raised) or "ok" with n results
SearchResult(outcome, n) ==
    IF outcome = "ok"
    THEN [ research_text |-> [form |-> "str", kind |-> "findings",
                              results |-> IF variant = "new_main" THEN Min(n, CitationCap) ELSE n],
           citations |-> [j \in 1..(IF variant = "new_main" THEN Min(n, CitationCap) ELSE n)
                             |-> Citation(j)] ]
    ELSE [ research_text |-> [form |-> "str", kind |-> "unavailable", results |-> 0],
           citations |-> <<>> ]

\* research_phase, the tool call having returned `result`
ResearchStore(st, result) ==
    IF variant = "new_main"
    THEN [st EXCEPT !.research_data = result.research_text,
                    !.citations = result.citations]
    ELSE [st EXCEPT !.research_data =
                        [result.research_text EXCEPT !.form = "dict"]]

\* research_phase, the tool call having raised
ResearchExcept(st) ==
    IF variant = "new_main"
    THEN [st EXCEPT !.research_data = [form |-> "str", kind |-> "general", results |-> 0],
                    !.citations = <<>>]
    ELSE [st EXCEPT !.research_data = [form |-> "str", kind |-> "general", results |-> 0]]

ResearchPhase ==
    /\ pc = "research"
    /\ \/ /\ \E outcome \in {"raise", "malformed"} :
                state' = ResearchStore(state, SearchResult(outcome, 0))
          /\ calls' = Append(calls, "search")
       \/ /\ \E n \in SearchResultCounts :
                state' = ResearchStore(state, SearchResult("ok", n))
          /\ calls' = Append(calls, "search")
       \/ /\ state' = ResearchExcept(state)
          /\ calls' = Append(calls, "search")
    /\ pc' = NextNode("research")
    /\ UNCHANGED <<variant, api_key, request, i, processed_posts, post_results, response, tags, peer>>

\* a strategy phase that replaces the research text by the strategy made of it
StrategyStoreConsumesResearch(st, words) ==
    [st EXCEPT !.post_strategy = "strategy",
               !.tokens_used = @ + words * TokensPerWord,
               !.research_data = NoResearch]

\* strategy_phase, the model having answered with a text of `words` words
StrategyStore(st, words) ==
    [st EXCEPT !.post_strategy = "strategy",
               !.tokens_used = @ + words * TokensPerWord]

\* a strategy phase that swallows the failure and goes on without a strategy
StrategyPhaseRecover ==
    /\ pc = "strategy"
    /\ calls' = Append(calls, "strategy")
    /\ \/ UNCHANGED state
       \/ \E words \in StrategyWordCounts : state' = StrategyStore(state, words)
    /\ pc' = "generation"
    /\ UNCHANGED <<variant, api_key, request, i, processed_posts, post_results, response, tags, peer>>

StrategyPhase ==
    /\ pc = "strategy"
    /\ calls' = Append(calls, "strategy")
    /\ \/ /\ Fail("strategy model call failed")
          /\ UNCHANGED state
       \/ /\ \E words \in StrategyWordCounts : state' = StrategyStore(state, words)
          /\ pc' = NextNode("strategy")
          /\ UNCHANGED response
    /\ UNCHANGED <<variant, api_key, request, i, processed_posts, post_results, tags, peer>>

\* an except branch that logs the failure and appends nothing
GenerationFallbackDrop(st, posts) ==
    [ posts |-> posts,
      tokens_used |-> st.tokens_used + FallbackTokens * 10 ]

\* the except branch of one loop iteration
GenerationFallback(st, posts) ==
    [ posts |-> Append(posts, FallbackPost(st)),
      tokens_used |-> st.tokens_used + FallbackTokens * 10 ]

\* a try branch that counts the characters of the post instead of the words
GenerationSuccessCharCount(st, posts, k, out) ==
    [ posts |-> Append(posts, ProcessedPost(st, PromptApproach(k), out)),
      tokens_used |-> st.tokens_used + out.body * TokensPerWord ]

\* a try branch that assigns the estimate instead of adding it
GenerationSuccessAssign(st, posts, k, out) ==
    [ posts |-> Append(posts, ProcessedPost(st, PromptApproach(k), out)),
      tokens_used |-> out.words * TokensPerWord ]

\* the try branch of one loop iteration, the model having answered `out`
GenerationSuccess(st, posts, k, out) ==
    [ posts |-> Append(posts, ProcessedPost(st, PromptApproach(k), out)),
      tokens_used |-> st.tokens_used + out.words * TokensPerWord ]

\* a lookup that falls back on the medium guide for an unknown length
LengthLookupDefault(length) == "found"

\* length_guide[state["length"]]: found, or a KeyError
LengthLookup(length) ==
    IF length \in length_guide THEN "found" ELSE "KeyError"

\* one iteration of `for i in range(state["post_count"])`
GenerationIteration ==
    /\ pc = "generation"
    /\ i < state.post_count
    /\ IF LengthLookup(state.length) = "KeyError"
       THEN /\ Fail("KeyError: length")
            /\ UNCHANGED <<state, i, processed_posts, post_results, calls>>
       ELSE IF state.research_data.form = "dict"
       THEN /\ Fail("TypeError: research_data[:500]")
            /\ UNCHANGED <<state, i, processed_posts, post_results, calls>>
       ELSE /\ calls' = Append(calls, "post")
            /\ \/ \E out \in LLMOutputs :
                    LET r == GenerationSuccess(state, processed_posts, i, out) IN
                    /\ processed_posts' = r.posts
                    /\ state' = [state EXCEPT !.tokens_used = r.tokens_used]
                    /\ post_results' = Append(post_results, [ok |-> TRUE, out |-> out, approach |-> PromptApproach(i)])
               \/ LET r == GenerationFallback(state, processed_posts) IN
                    /\ processed_posts' = r.posts
                    /\ state' = [state EXCEPT !.tokens_used = r.tokens_used]
                    /\ post_results' = Append(post_results, [ok |-> FALSE, out |-> NoOutput, approach |-> PromptApproach(i)])
            /\ i' = i + 1
            /\ UNCHANGED <<pc, response>>
    /\ UNCHANGED <<variant, api_key, request, tags, peer>>

\* the end of the loop: state["generated_posts"] = processed_posts
GenerationReturn ==
    /\ pc = "generation"
    /\ i >= state.post_count
    /\ state' = [state EXCEPT !.generated_posts = processed_posts]
    /\ pc' = NextNode("generation")
    /\ UNCHANGED <<variant, api_key, request, i, processed_posts, post_results, calls, response, tags, peer>>

\* GenerationResponse(...) built from the final state
BuildResponse(st) ==
    [ kind |-> "success", status_code |-> 200, detail |-> <<>>,
      posts |-> st.generated_posts,
      tokens_used |-> st.tokens_used \div 10,
      search_results_used |-> (st.research_data.form # "none"),
      citations |-> st.citations ]

Respond ==
    /\ pc = "respond"
    /\ response' = BuildResponse(state)
    /\ pc' = "done"
    /\ UNCHANGED <<variant, api_key, request, state, i, processed_posts, post_results, calls, tags, peer>>

Next ==
    \/ GeneratePosts
    \/ ResearchPhase
    \/ StrategyPhase
    \/ GenerationIteration
    \/ GenerationReturn
    \/ Respond

Spec == Init /\ [][Next]_vars

----------------------------------------------------------------------------
(* The hashtag lookup on its own: analyze_hashtag_performance(topic) for the
   topics made of up to MaxTopicWords words of Vocabulary *)

Vocabulary ==
    << <<"S","t","a","r","t","u","p">>,
       <<"A","I">>,
       <<"M","a","r","k","e","t","i","n","g">>,
       <<"L","E","A","D","E","R","S","H","I","P">>,
       <<"T","e","c","h","n","o","l","o","g","y">>,
       <<"c","a","r","e","e","r">>,
       <<"C","a","m","p","a","i","g","n">>,
       <<"c","l","o","u","d">>,
       <<"D","a","t","a">> >>

\* the words ws[1], ..., ws[Len(ws)] of Vocabulary, separated by blanks
RECURSIVE JoinWords(_)
JoinWords(ws) ==
    IF ws = <<>> THEN <<>>
    ELSE IF Len(ws) = 1 THEN Vocabulary[ws[1]]
    ELSE Vocabulary[ws[1]] \o <<" ">> \o JoinWords(Tail(ws))

LookupTopics ==
    { JoinWords(ws) : ws \in UNION { [1..n -> 1..Len(Vocabulary)] : n \in 0..MaxTopicWords } }

InitHashtag ==
    /\ variant \in Variants
    /\ api_key = "configured"
    /\ request \in [ topic : LookupTopics, tone : Tones, audience : {"general"},
                      length : {"medium"}, include_hashtags : {TRUE},
                      include_cta : {TRUE}, post_count : {1}, language : {"english"} ]
    /\ pc = "lookup"
    /\ state = Unset
    /\ i = 0
    /\ processed_posts = <<>>
    /\ post_results = <<>>
    /\ calls = <<>>
    /\ response = NoResponse
    /\ tags = <<>>
    /\ peer = NoPeer

HashtagLookup ==
    /\ pc = "lookup"
    /\ tags' = analyze_hashtag_performance(request.topic)
    /\ pc' = "looked_up"
    /\ UNCHANGED <<variant, api_key, request, state, i, processed_posts,
                   post_results, calls, response, peer>>

NextHashtag == HashtagLookup

SpecHashtag == InitHashtag /\ [][NextHashtag]_vars

----------------------------------------------------------------------------
(* Two requests in flight: the event loop runs one coroutine at a time and
   may switch to the other one wherever the running one awaits *)

PairRequests ==
    << [ topic |-> TopicAI, tone |-> ToneProfessional, audience |-> "general",
         length |-> "medium", include_hashtags |-> TRUE, include_cta |-> TRUE,
         post_count |-> 2, language |-> "english" ],
       [ topic |-> TopicRemote, tone |-> ToneProfessional, audience |-> "general",
         length |-> "medium", include_hashtags |-> FALSE, include_cta |-> FALSE,
         post_count |-> 1, language |-> "english" ] >>

\* the locals of a request that has been received and has not run yet
Received(rid) ==
    [ rid |-> rid, request |-> PairRequests[rid], pc |-> "received",
      state |-> Unset, i |-> 0, processed_posts |-> <<>>,
      post_results |-> <<>>, calls |-> <<>>, response |-> NoResponse ]

InitPair ==
    /\ variant \in Variants
    /\ api_key = "configured"
    /\ request = PairRequests[1]
    /\ pc = "received"
    /\ state = Unset
    /\ i = 0
    /\ processed_posts = <<>>
    /\ post_results = <<>>
    /\ calls = <<>>
    /\ response = NoResponse
    /\ tags = <<>>
    /\ peer = Received(2)

\* a service that keeps the posts built so far in one module-level list
SwitchSharedPosts ==
    /\ peer.rid # 0
    /\ peer' = [ rid |-> 3 - peer.rid, request |-> request, pc |-> pc,
                 state |-> state, i |-> i,
                 processed_posts |-> peer.processed_posts,
                 post_results |-> post_results, calls |-> calls,
                 response |-> response ]
    /\ request' = peer.request
    /\ pc' = peer.pc
    /\ state' = peer.state
    /\ i' = peer.i
    /\ processed_posts' = processed_posts
    /\ post_results' = peer.post_results
    /\ calls' = peer.calls
    /\ response' = peer.response
    /\ UNCHANGED <<variant, api_key, tags>>

\* the running request is suspended and the other one resumed: each coroutine
\* keeps its own request, state and locals
Switch ==
    /\ peer.rid # 0
    /\ peer' = [ rid |-> 3 - peer.rid, request |-> request, pc |-> pc,
                 state |-> state, i |-> i,
                 processed_posts |-> processed_posts,
                 post_results |-> post_results, calls |-> calls,
                 response |-> response ]
    /\ request' = peer.request
    /\ pc' = peer.pc
    /\ state' = peer.state
    /\ i' = peer.i
    /\ processed_posts' = peer.processed_posts
    /\ post_results' = peer.post_results
    /\ calls' = peer.calls
    /\ response' = peer.response
    /\ UNCHANGED <<variant, api_key, tags>>

NextPair == Next \/ Switch

SpecPair == InitPair /\ [][NextPair]_vars

----------------------------------------------------------------------------
(* Properties *)

Finished == pc = "done"
Succeeded == pc = "done" /\ response.kind = "success"
Errored == pc = "done" /\ response.kind = "error"

\* the approach of the post at position j (counted from 1) is Question/Engagement
QuestionPosition(j) == (j - 1) % 5 = 2

\* C1, as claimed: a finished request is either an error without posts or a
\* success whose posts list has exactly min(requested post_count, 5) entries,
\* for every integer post_count
C1_ExactlyMinPosts ==
    Finished =>
        \/ response.kind = "error" /\ response.posts = <<>>
        \/ response.kind = "success"
             /\ Len(response.posts) = Min(request.post_count, 5)

\* C1, amended: a finished request is either an error without posts or a
\* success whose posts list has exactly max(0, min(requested post_count, 5))
\* entries, also when every post-generation model call failed
C1_NeverPartial ==
    Finished =>
        \/ response.kind = "error" /\ response.posts = <<>>
        \/ response.kind = "success"
             /\ Len(response.posts) = Max(0, Min(request.post_count, 5))

\* a request for 6 posts answered with 5 posts, every model call having failed
C1_Witness ==
    /\ Succeeded
    /\ request.post_count = 6
    /\ Len(response.posts) = 5
    /\ Len(post_results) = 5
    /\ \A j \in 1..5 : ~post_results[j].ok

\* the search failed: the research text is one of the degraded texts
SearchFailed ==
    /\ pc \notin {"received", "research"}
    /\ state.research_data.kind \in {"unavailable", "general"}

\* C2: when the search fails, research_data is the placeholder text, citations
\* is empty and, if the strategy call succeeds, the request ends in a success
\* response with the full post count
C2_SearchFailureDegrades ==
    SearchFailed =>
        /\ state.research_data.form = "str"
        /\ state.citations = <<>>
        /\ (Finished /\ state.post_strategy # "None") =>
              /\ response.kind = "success"
              /\ Len(response.posts) = Max(0, Min(request.post_count, 5))

\* the strategy model call was issued and left no strategy
StrategyFailed ==
    /\ \E k \in 1..Len(calls) : calls[k] = "strategy"
    /\ state.post_strategy = "None"

\* C3: a failed strategy call ends the request as a server error whose message
\* embeds the underlying error; the generation loop is never entered, no model
\* call for a post is issued and no post, fallback or other, exists
C3_StrategyFailureIsFatal ==
    StrategyFailed =>
        /\ Errored
        /\ response.status_code = 500
        /\ response.detail = <<"Generation failed: ", "strategy model call failed">>
        /\ response.posts = <<>>
        /\ i = 0
        /\ processed_posts = <<>>
        /\ state.generated_posts = <<>>
        /\ post_results = <<>>
        /\ \A k \in 1..Len(calls) : calls[k] # "post"

\* the strategy call failed for a request that asked for posts
C3_Witness ==
    /\ StrategyFailed
    /\ Finished
    /\ request.post_count >= 1
    /\ state.length \in length_guide
    /\ calls = <<"search", "strategy">>

\* post p is the fixed fallback post of state st
IsFallbackOf(p, st) ==
    /\ p.content.text = "fallback"
    /\ p.hashtags = IF st.include_hashtags
                    THEN analyze_hashtag_performance(st.topic) ELSE <<>>
    /\ p.cta = IF st.include_cta THEN CtaFallback ELSE ""
    /\ p.estimated_engagement = "medium"

\* C4: an iteration whose model call fails appends the fallback post at
\* position i, adds exactly 200 to tokens_used and goes on with i + 1; the
\* posts built stay where they are up to generated_posts
C4_FailedCallYieldsFallback ==
    [][ /\ (/\ Len(post_results') = Len(post_results) + 1
            /\ ~post_results'[Len(post_results')].ok)
           => /\ processed_posts' = Append(processed_posts, processed_posts'[i + 1])
              /\ IsFallbackOf(processed_posts'[i + 1], state)
              /\ state'.tokens_used = state.tokens_used + 200 * 10
              /\ i' = i + 1
              /\ pc' = "generation"
              /\ response' = response
        /\ (pc = "generation" /\ pc' = "respond")
           => state'.generated_posts = processed_posts ]_vars

\* a response in which a fallback post is followed by a generated one
C4_Witness ==
    /\ Succeeded
    /\ request.include_hashtags /\ request.include_cta
    /\ Len(response.posts) >= 3
    /\ ~post_results[1].ok
    /\ post_results[2].ok
    /\ ~post_results[3].ok

\* the engagement rule for the post p at position j
EngagementRule(p, j) ==
    LET n == p.content.len
        q == QuestionPosition(j)
    IN  /\ (n > 200 \/ q) => p.estimated_engagement = "high"
        /\ p.estimated_engagement = "low" => (n < 100 /\ ~q)
        /\ (~(n > 200 \/ q) /\ ~(n < 100)) => p.estimated_engagement = "medium"
        /\ (n < 100 /\ ~q) => p.estimated_engagement = "low"

\* C5, as claimed: every post of a response follows the engagement rule
C5_EveryPostFollowsRule ==
    Succeeded =>
        \A j \in 1..Len(response.posts) : EngagementRule(response.posts[j], j)

\* C5, amended: every model-generated post of a response follows the
\* engagement rule, and every fallback post is "medium"
C5_GeneratedPostsFollowRule ==
    Succeeded =>
        \A j \in 1..Len(response.posts) :
            IF post_results[j].ok
            THEN EngagementRule(response.posts[j], j)
            ELSE response.posts[j].estimated_engagement = "medium"

\* a response with a short, a boundary-length and a question post, all generated
C5_Witness ==
    /\ Succeeded
    /\ Len(response.posts) = 5
    /\ \A j \in 1..4 : post_results[j].ok
    /\ response.posts[1].content.len = 0
    /\ response.posts[2].content.len = 200
    /\ response.posts[3].content.len = 0
    /\ response.posts[4].content.len = 201
    /\ ~post_results[5].ok

\* C6, as claimed: with include_cta, every post of a response at a
\* Question/Engagement position carries the question call to action
C6_QuestionPostsCarryQuestionCta ==
    (Succeeded /\ request.include_cta) =>
        \A j \in 1..Len(response.posts) :
            QuestionPosition(j) => response.posts[j].cta = CtaQuestion

\* C6, amended: with include_cta, every model-generated post of a response at
\* a Question/Engagement position carries the question call to action, and a
\* fallback post at that position carries the fallback call to action
C6_GeneratedQuestionPostsCarryQuestionCta ==
    (Succeeded /\ request.include_cta) =>
        \A j \in 1..Len(response.posts) :
            QuestionPosition(j) =>
                response.posts[j].cta =
                    IF post_results[j].ok THEN CtaQuestion ELSE CtaFallback

\* a response whose third post was generated, for a request with include_cta
C6_Witness ==
    /\ Succeeded
    /\ request.include_cta
    /\ Len(response.posts) >= 3
    /\ post_results[3].ok
    /\ response.posts[3].cta = CtaQuestion

\* C7: without include_cta every post of a response, generated or fallback,
\* whatever its approach, has the empty call to action
C7_NoCtaWhenNotRequested ==
    (Succeeded /\ ~request.include_cta) =>
        \A j \in 1..Len(response.posts) : response.posts[j].cta = ""

\* a response of five posts, generated and fallback, without include_cta
C7_Witness ==
    /\ Succeeded
    /\ ~request.include_cta
    /\ Len(response.posts) = 5
    /\ post_results[1].ok /\ ~post_results[2].ok
    /\ post_results[3].ok /\ ~post_results[4].ok

\* key k of the table occurs in the topic, letter case ignored
KeyOccurs(k, topic) ==
    \E off \in 0..(Len(topic) - Len(HashtagKeys[k])) :
        \A j \in 1..Len(HashtagKeys[k]) :
            LowerChar[topic[off + j]] = HashtagKeys[k][j]

\* C8: the lookup returns the five tags of the first key, in table order,
\* that occurs in the topic whatever the letter case, and the five default
\* tags when no key occurs
C8_FirstMatchingKeyWins ==
    pc = "looked_up" =>
        LET found == {k \in 1..Len(HashtagKeys) : KeyOccurs(k, request.topic)} IN
        /\ Len(tags) = 5
        /\ IF found = {}
           THEN tags = <<"#LinkedIn", "#Professional", "#Insights", "#Growth", "#Success">>
           ELSE \E k \in found :
                   /\ \A m \in found : k <= m
                   /\ tags = HashtagTags[k]

\* a topic that names "AI" before "Startup" and gets the startup tags
C8_Witness ==
    /\ pc = "looked_up"
    /\ Len(request.topic) > 2
    /\ request.topic[1] = "A" /\ request.topic[2] = "I"
    /\ KeyOccurs(1, request.topic)
    /\ KeyOccurs(2, request.topic)
    /\ tags[1] = "#StartupLife"

\* C9, as claimed: tokens_used is never negative and every post appended by
\* the loop makes it strictly larger
C9_EveryPostAddsTokens ==
    [][ /\ state'.tokens_used >= 0
        /\ Len(processed_posts') = Len(processed_posts) + 1
           => state'.tokens_used > state.tokens_used ]_vars

\* C9, amended: tokens_used is never negative; a post appended by the loop
\* adds 1.3 times the word count of the model's output when it was generated
\* and 200 when it is a fallback, so tokens_used grows strictly except for a
\* model output without any word, which leaves it unchanged
C9_PostTokens ==
    [][ /\ state'.tokens_used >= 0
        /\ Len(processed_posts') = Len(processed_posts) + 1
           => LET r == post_results'[Len(post_results')]
                  added == state'.tokens_used - state.tokens_used
              IN  /\ Len(post_results') = Len(processed_posts')
                  /\ added = IF r.ok THEN 13 * r.out.words ELSE 200 * 10
                  /\ (added > 0) <=> (~r.ok \/ r.out.words > 0)
                  /\ added >= 0 ]_vars

\* a wordless output, an output with words and a fallback, in this order
C9_Witness ==
    /\ Len(post_results) = 3
    /\ Len(processed_posts) = 3
    /\ post_results[1].ok /\ post_results[1].out.words = 0
    /\ post_results[2].ok /\ post_results[2].out.words > 0
    /\ ~post_results[3].ok
    /\ state.tokens_used = 2 * 13 + post_results[2].out.words * 13 + 200 * 10

\* C10: tokens_used is 0 in the initial state and no step of the pipeline
\* makes it smaller
C10_TokensNeverDecrease ==
    [][ /\ pc = "received" => state'.tokens_used = 0
        /\ state'.tokens_used >= state.tokens_used ]_vars

\* a finished request whose three stages all ran and added tokens
C10_Witness ==
    /\ Succeeded
    /\ calls = <<"search", "strategy", "post", "post", "post">>
    /\ post_results[1].ok /\ post_results[1].out.words > 0
    /\ ~post_results[2].ok
    /\ post_results[3].ok /\ post_results[3].out.words = 0
    /\ state.tokens_used > 200 * 10 + 2 * 13

\* C11, as claimed: a finished request whose length is none of short, medium
\* and long has failed, and the failure is the key lookup error.
C11_UnsupportedLengthAlwaysFails ==
    (Finished /\ request.length \notin {"short", "medium", "long"}) =>
        /\ Errored
        /\ response.detail = <<"Generation failed: ", "KeyError: length">>

\* C11: a finished request for at least one post whose length is none of
\* short, medium and long has failed without any post, the model was never
\* asked for a post, and once the strategy was stored the failure is the key
\* lookup error.
C11_UnsupportedLengthFailsFirstIteration ==
    (Finished /\ request.length \notin {"short", "medium", "long"}
              /\ request.post_count >= 1) =>
        /\ Errored
        /\ response.posts = <<>>
        /\ post_results = <<>>
        /\ state.post_strategy = "strategy" =>
               response.detail = <<"Generation failed: ", "KeyError: length">>

C11_Witness ==
    /\ Errored
    /\ request.length = "extra-long"
    /\ request.post_count >= 1
    /\ state.post_strategy = "strategy"
    /\ response.detail = <<"Generation failed: ", "KeyError: length">>

\* the position of a control point in the order received, Research, Strategy,
\* Generation, response (Done), finished
StageRank(p) ==
    CASE p = "received" -> 0
      [] p = "research" -> 1
      [] p = "strategy" -> 2
      [] p = "generation" -> 3
      [] p = "respond" -> 4
      [] p = "done" -> 5

\* C12: whenever the request moves on it moves forward in the order Research,
\* Strategy, Generation, Done, so no stage is entered twice or revisited; a
\* stage is entered only from the stage before it, and only once that stage
\* has returned its output.
C12_StagesInOrder ==
    [][ pc' # pc =>
          /\ StageRank(pc') > StageRank(pc)
          /\ pc' = "research" => pc = "received"
          /\ pc' = "strategy" =>
                 pc = "research" /\ state'.research_data # NoResearch
          /\ pc' = "generation" =>
                 pc = "strategy" /\ state'.post_strategy = "strategy"
          /\ pc' = "respond" =>
                 /\ pc = "generation"
                 /\ i >= state.post_count
                 /\ state'.generated_posts = processed_posts ]_vars

C12_Witness ==
    /\ Succeeded
    /\ Len(response.posts) >= 2
    /\ calls = <<"search", "strategy", "post", "post">>

\* C13, as claimed: with the credential absent or equal to the placeholder no
\* strategy call and no post call is ever issued, and the request ends with
\* the configuration error.
C13_MissingCredentialRejectedBeforeModelCalls ==
    api_key \in {"unset", "placeholder"} =>
        /\ \A k \in 1..Len(calls) : calls[k] \notin {"strategy", "post"}
        /\ Finished =>
              /\ Errored
              /\ response.detail =
                     <<"Generation failed: ", "OpenAI API key not configured">>

\* C14, as claimed: a success response has search_results_used true exactly
\* when the research stage stored findings of the search, and false when it
\* stored a placeholder text.
C14_SearchResultsUsedIffResearchSucceeded ==
    Succeeded =>
        (response.search_results_used <=> state.research_data.kind = "findings")

\* the fields of the state that generate_posts copies from the request
RequestFields ==
    {"topic", "tone", "audience", "length", "include_hashtags", "include_cta",
     "post_count", "language"}

\* what the iterations answered by `results` add to tokens_used, in tenths
RECURSIVE PostTokenSum(_)
PostTokenSum(results) ==
    IF results = <<>> THEN 0
    ELSE (IF Head(results).ok THEN 13 * Head(results).out.words ELSE 200 * 10)
         + PostTokenSum(Tail(results))

\* the request req, being at pcv with state st, posts built so far `posts`
\* and response resp, is where it would be had it run alone and been given
\* the answers `results` by the model
RunsAsAlone(req, pcv, st, posts, results, resp) ==
    /\ st # Unset =>
          /\ \A f \in RequestFields : st[f] = InitialState(req)[f]
          /\ \E w \in {0} \cup StrategyWordCounts :
                /\ w = 0 <=> st.post_strategy = "None"
                /\ st.tokens_used = 13 * w + PostTokenSum(results)
          /\ Len(st.citations) =
                IF variant = "new_main" THEN st.research_data.results ELSE 0
          /\ st.generated_posts \in {<<>>, posts}
    /\ Len(posts) = Len(results)
    /\ \A j \in 1..Len(posts) :
          /\ results[j].approach = post_prompts[j]
          /\ posts[j] = IF results[j].ok
                        THEN ProcessedPost(InitialState(req), post_prompts[j],
                                           results[j].out)
                        ELSE FallbackPost(InitialState(req))
    /\ resp.kind = "success" =>
          /\ pcv = "done"
          /\ resp.posts = posts
          /\ Len(posts) = req.post_count
          /\ resp.tokens_used = st.tokens_used \div 10
          /\ resp.citations = st.citations

\* C15: however the steps of two requests in flight interleave, each request
\* keeps its own state: its posts, tokens_used, research citations and
\* response are those of a run of this request alone that is given the same
\* answers by the search and the model.
C15_InterleavedRequestsRunAsAlone ==
    /\ RunsAsAlone(request, pc, state, processed_posts, post_results, response)
    /\ peer.rid # 0 =>
          /\ peer.request = PairRequests[peer.rid]
          /\ request = PairRequests[3 - peer.rid]
          /\ RunsAsAlone(peer.request, peer.pc, peer.state,
                         peer.processed_posts, peer.post_results, peer.response)

\* both requests are in the middle of their generation loops, each with a
\* post of its own built
C15_Witness ==
    /\ peer.rid = 1
    /\ pc = "generation" /\ peer.pc = "generation"
    /\ Len(processed_posts) = 1 /\ Len(peer.processed_posts) = 1
    /\ post_results[1].ok /\ peer.post_results[1].ok
    /\ processed_posts[1].hashtags = <<>>
    /\ Len(peer.processed_posts[1].hashtags) = 5

\* the call to action a generated post at position j (counted from 1) gets
\* from the approach of its position
PositionCta(j) ==
    CASE (j - 1) % 5 = 0 -> CtaStory
      [] (j - 1) % 5 = 1 -> CtaData
      [] (j - 1) % 5 = 2 -> CtaQuestion
      [] OTHER -> CtaGeneric

\* C16: the post at position j (counted from 1) is the one built in iteration
\* j - 1, with the approach post_prompts[(j - 1) mod 5]; a fallback stands at
\* the position of the iteration that failed; the response lists the posts in
\* this order.
C16_PostsInApproachOrder ==
    /\ Len(processed_posts) = i
    /\ Len(post_results) = i
    /\ \A j \in 1..Len(processed_posts) :
          /\ post_results[j].approach = post_prompts[((j - 1) % 5) + 1]
          /\ IF post_results[j].ok
             THEN /\ processed_posts[j].content =
                        [text |-> "model", len |-> post_results[j].out.body]
                  /\ state.include_cta => processed_posts[j].cta = PositionCta(j)
             ELSE processed_posts[j].content.text = "fallback"
    /\ Succeeded => response.posts = processed_posts

\* five posts, the second one a fallback, the others generated from four
\* different outputs of the model
C16_Witness ==
    /\ Succeeded
    /\ state.include_cta
    /\ Len(response.posts) = 5
    /\ ~post_results[2].ok
    /\ post_results[1].ok /\ post_results[1].out.body = 0
    /\ post_results[3].ok /\ post_results[3].out.body = 100
    /\ post_results[4].ok /\ post_results[4].out.body = 200
    /\ post_results[5].ok /\ post_results[5].out.body = 201

\* C17: every post built, generated or fallback, carries the five tags the
\* hashtag lookup gives for the topic when include_hashtags is set and no tag
\* otherwise; so all the posts of a response carry the same list, of length
\* 0 or 5.
C17_PostsCarryLookupHashtags ==
    LET expected ==
            IF ~request.include_hashtags THEN <<>>
            ELSE IF request.topic = TopicAI
                 THEN <<"#ArtificialIntelligence", "#MachineLearning", "#AI",
                        "#TechInnovation", "#FutureOfWork">>
                 ELSE <<"#LinkedIn", "#Professional", "#Insights", "#Growth",
                        "#Success">>
    IN  /\ \A j \in 1..Len(processed_posts) :
              processed_posts[j].hashtags = expected
        /\ \A j \in 1..Len(response.posts) :
              /\ response.posts[j].hashtags = expected
              /\ response.posts[j].hashtags = response.posts[1].hashtags
              /\ Len(response.posts[j].hashtags) \in {0, 5}

\* a response with a generated post and a fallback post about "AI in
\* healthcare", hashtags asked for
C17_Witness ==
    /\ Succeeded
    /\ request.include_hashtags
    /\ request.topic = TopicAI
    /\ Len(response.posts) = 2
    /\ post_results[1].ok /\ ~post_results[2].ok
    /\ response.posts[1].hashtags[3] = "#AI"
    /\ response.posts[2].hashtags[3] = "#AI"

\* C18, as claimed: in both variants what the research stage stores in
\* research_data is a text, and no request fails because research_data[:500]
\* raised.
C18_ResearchDataIsText ==
    /\ state.research_data.form \in {"none", "str"}
    /\ ~(/\ Errored
         /\ response.detail =
                <<"Generation failed: ", "TypeError: research_data[:500]">>)

\* C19: a request fails with the key lookup error only in the first iteration
\* of the generation loop: it asked for at least one post in an unsupported
\* length, the search call and the strategy call were issued and their
\* results stored, no post was asked of the model and no post, fallback or
\* other, was built.  No post call is ever issued for an unsupported length.
C19_LengthFailureInFirstIteration ==
    /\ (/\ Errored
        /\ response.detail = <<"Generation failed: ", "KeyError: length">>)
       => /\ request.length \notin {"short", "medium", "long"}
          /\ request.post_count >= 1
          /\ calls = <<"search", "strategy">>
          /\ state.research_data # NoResearch
          /\ state.post_strategy = "strategy"
          /\ i = 0
          /\ post_results = <<>>
          /\ processed_posts = <<>>
          /\ response.posts = <<>>
    /\ request.length \notin {"short", "medium", "long"}
       => /\ \A k \in 1..Len(calls) : calls[k] # "post"
          /\ processed_posts = <<>>

\* the key lookup error in the variant whose research_data is not a text: the
\* length is looked up before research_data is sliced
C19_Witness ==
    /\ Errored
    /\ response.detail = <<"Generation failed: ", "KeyError: length">>
    /\ variant = "main"
    /\ state.research_data.form = "dict"
    /\ request.post_count = 5
    /\ calls = <<"search", "strategy">>

\* C20: a step of the research stage changes no field of the state but
\* research_data and citations, a step of the strategy stage none but
\* post_strategy and tokens_used, a step of the generation stage none but
\* generated_posts and tokens_used; building the response changes none; the
\* request and the fields copied from it never change.
C20_StagesChangeOnlyTheirOutputs ==
    [][ LET changed == {f \in DOMAIN state : state'[f] # state[f]} IN
        /\ pc = "research" => changed \subseteq {"research_data", "citations"}
        /\ pc = "strategy" => changed \subseteq {"post_strategy", "tokens_used"}
        /\ pc = "generation" => changed \subseteq {"generated_posts", "tokens_used"}
        /\ pc \in {"respond", "done"} => changed = {}
        /\ pc # "received" => \A f \in RequestFields : state'[f] = state[f]
        /\ request' = request ]_vars

\* a request through all three stages, each having stored its outputs
C20_Witness ==
    /\ Succeeded
    /\ Len(state.citations) = 3
    /\ state.research_data.kind = "findings"
    /\ state.post_strategy = "strategy"
    /\ Len(state.generated_posts) = 3
    /\ state.tokens_used > 200 * 10
    /\ \A f \in RequestFields : state[f] = InitialState(request)[f]

====
